---------------------------- MODULE Spec2Model ----------------------------
(***************************************************************************)
(* A model of the filesystem-observation core of logdna-agent-v2:          *)
(*                                                                         *)
(*   - the watch event reconciler, Watcher::read_events                    *)
(*     (src/common/fs/src/cache/watch.rs), which pairs the MOVED_FROM and  *)
(*     MOVED_TO halves of a rename by cookie and flushes unpaired halves   *)
(*     on a heartbeat;                                                     *)
(*   - the tailer, Tailer::process and Tailer::tail                        *)
(*     (src/common/fs/src/tail.rs), which keeps a byte offset per file     *)
(*     and reads newline-terminated records past it;                       *)
(*   - the tree's entries (src/common/fs/src/cache/entry.rs), which a      *)
(*     rename changes in place;                                            *)
(*   - the start of a source, Source::begin_processing for the Tailer and  *)
(*     SourceCollection::register (src/common/fs/src/tail.rs,              *)
(*     src/common/source/src/lib.rs, src/bin/src/main.rs).                 *)
(*                                                                         *)
(* The parts have their own specifications (WatchSpec, TailSpec, LinkSpec, *)
(* EntrySpec and SourceSpec); each leaves the others' variables alone.     *)
(***************************************************************************)
EXTENDS Integers, Sequences, FiniteSets, TLC

VARIABLES
    \* ---- watch.rs: Watcher::read_events ----
    clock,                \* tokio's clock, in ms (Instant::now())
    next_tick,            \* the deadline of the interval's next tick
    unmatched_move_to,    \* Vec<(Instant, WatchEvent)>, behind a Mutex
    unmatched_move_from,  \* Vec<(Instant, WatchEvent)>, behind a Mutex
    lock_to,              \* unmatched_move_to's Mutex is held
    lock_from,            \* unmatched_move_from's Mutex is held
    pc,                   \* where the stream's current item stands
    cur,                  \* the raw event of the pending future, and its idx
    wout,                 \* the events the stream has yielded, in order
    rawlog,               \* history: the raw notifications read, with times
    \* ---- entry.rs, tail.rs: Tailer::process over one Entry ----
    entry,                \* the entry's variant, name, parent, wd, ...
    file,                 \* the content behind the entry's file_handle
    data,                 \* the entry's payload: the read offset
    paths,                \* how many paths fs.resolve_valid_paths(entry) gives
    lines_out,            \* the batches the last processed event yielded
    fops,                 \* how many times the file or the tree has changed
    last,                 \* history: the step just taken in the tailer's world
    prev,                 \* history: a summary of the step before it
    hist,                 \* history: what has happened to the file so far
    \* ---- tail.rs, source/lib.rs, main.rs: the start of the sources ----
    tailers,              \* each Tailer's watched_dirs and rules (Options)
    tasks,                \* the tasks handed to tokio's spawn, in order
    sources,              \* SourceCollection::sources
    calls                 \* history: the calls of begin_processing, in order

wvars == <<clock, next_tick, unmatched_move_to, unmatched_move_from,
           lock_to, lock_from, pc, cur, wout, rawlog>>

tvars == <<entry, file, data, paths, lines_out, fops, last, prev, hist>>

svars == <<tailers, tasks, sources, calls>>

vars == <<wvars, tvars, svars>>

(***************************************************************************)
(* Bounds of the model (not program constants).                            *)
(***************************************************************************)
MaxTime == 3500
MaxRaw == 3
MaxFileOps == 2
MaxPaths == 2
MaxReadCalls == 2
MaxCalls == 3

(***************************************************************************)
(* watch.rs                                                                *)
(***************************************************************************)
INOTIFY_EVENT_GRACE_PERIOD_MS == 1000

\* The clock moves in steps of half the grace period, so that a half can be
\* exactly as old as, younger than and older than the grace period at a tick.
TimeStep == INOTIFY_EVENT_GRACE_PERIOD_MS \div 2

\* The cookies of the renames in flight.
Cookies == {1, 2}

IsMove(mask) == "MOVED_FROM" \in mask \/ "MOVED_TO" \in mask

\* inotify::Event, with the masks the kernel delivers: one event bit, with
\* ISDIR for a directory; IGNORED is none of the six bits the reconciler
\* tests.  A rename half carries the rename's cookie, every other event the
\* cookie 0; MODIFY (a file's watch), Q_OVERFLOW and IGNORED carry no name.
\* The halves of the two renames differ in wd and name, so that a Move built
\* from the wrong half shows.
RawEvents ==
    {[mask |-> {"MOVED_FROM"}, wd |-> c, name |-> "a", cookie |-> c] :
        c \in Cookies}
    \cup
    {[mask |-> {"MOVED_TO"}, wd |-> 3 - c, name |-> "b", cookie |-> c] :
        c \in Cookies}
    \cup
    {[mask |-> m, wd |-> 1, name |-> "a", cookie |-> 0] :
        m \in {{"CREATE"}, {"DELETE"}, {"CREATE", "ISDIR"}}}
    \cup
    {[mask |-> {"MODIFY"}, wd |-> 2, name |-> "", cookie |-> 0]}
    \cup
    {[mask |-> m, wd |-> 0, name |-> "", cookie |-> 0] :
        m \in {{"Q_OVERFLOW"}, {"IGNORED"}}}

\* enum WatchEvent
Create(wd, name) == [kind |-> "Create", wd |-> wd, name |-> name]
Modify(wd) == [kind |-> "Modify", wd |-> wd]
Delete(wd, name) == [kind |-> "Delete", wd |-> wd, name |-> name]
Move(from_wd, from_name, to_wd, to_name) ==
    [kind |-> "Move", from_wd |-> from_wd, from_name |-> from_name,
     to_wd |-> to_wd, to_name |-> to_name]
MovedFrom(wd, name, cookie) ==
    [kind |-> "MovedFrom", wd |-> wd, name |-> name, cookie |-> cookie]
MovedTo(wd, name, cookie) ==
    [kind |-> "MovedTo", wd |-> wd, name |-> name, cookie |-> cookie]
Overflow == [kind |-> "Overflow"]

NoRaw == [mask |-> {}, wd |-> 0, name |-> "", cookie |-> 0]
NoCur == [raw |-> NoRaw, idx |-> 0]

\* Iterator::position over a buffer for the half of `kind` with `cookie`:
\* the first index (from 1) whose event matches, 0 for None.
PositionCookie(buf, kind, cookie) ==
    LET hits == {i \in 1..Len(buf) :
                    buf[i].ev.kind = kind /\ buf[i].ev.cookie = cookie}
    IN IF hits = {} THEN 0 ELSE CHOOSE i \in hits : \A j \in hits : i <= j

\* Vec::swap_remove: the element at idx is replaced by the last one.
SwapRemove(buf, idx) ==
    [i \in 1..(Len(buf) - 1) |-> IF i = idx THEN buf[Len(buf)] ELSE buf[i]]

\* Mutant of Expired: a half exactly as old as the grace period is flushed.
Expired_AtGrace(now, instant) == now - INOTIFY_EVENT_GRACE_PERIOD_MS >= instant

\* The heartbeat's test of a buffered half: now - grace > instant.
Expired(now, instant) == now - INOTIFY_EVENT_GRACE_PERIOD_MS > instant

PositionExpired(buf, now) ==
    LET hits == {i \in 1..Len(buf) : Expired(now, buf[i].t)}
    IN IF hits = {} THEN 0 ELSE CHOOSE i \in hits : \A j \in hits : i <= j

\* while let Some(idx) = position(expired) { events.push(swap_remove(idx).1) }
\* with the events pushed so far.
RECURSIVE Flush(_, _, _)
Flush(buf, now, events) ==
    LET idx == PositionExpired(buf, now)
    IN IF idx = 0
       THEN [buf |-> buf, events |-> events]
       ELSE Flush(SwapRemove(buf, idx), now, Append(events, buf[idx].ev))

\* Mutant of PassThrough: the DELETE test comes first and Q_OVERFLOW is not
\* looked at.
PassThrough_NoOverflow(raw) ==
    IF "DELETE" \in raw.mask THEN <<Delete(raw.wd, raw.name)>>
    ELSE IF "CREATE" \in raw.mask THEN <<Create(raw.wd, raw.name)>>
    ELSE IF "MODIFY" \in raw.mask THEN <<Modify(raw.wd)>>
    ELSE <<>>

\* The event a notification that is no rename half maps to; <<>> for None
\* (the filter_map drops Ok(None)).
PassThrough(raw) ==
    IF "CREATE" \in raw.mask THEN <<Create(raw.wd, raw.name)>>
    ELSE IF "DELETE" \in raw.mask THEN <<Delete(raw.wd, raw.name)>>
    ELSE IF "MODIFY" \in raw.mask THEN <<Modify(raw.wd)>>
    ELSE IF "Q_OVERFLOW" \in raw.mask THEN <<Overflow>>
    ELSE <<>>

\* The kernel gives every rename a cookie of its own: a cookie is carried by
\* at most one MOVED_FROM and at most one MOVED_TO.
FreshCookie(raw) ==
    IsMove(raw.mask) =>
        \A i \in 1..Len(rawlog) :
            ~(rawlog[i].ev.mask = raw.mask /\ rawlog[i].ev.cookie = raw.cookie)

WInit ==
    /\ clock = 0
    /\ next_tick = 0
    /\ unmatched_move_to = <<>>
    /\ unmatched_move_from = <<>>
    /\ lock_to = FALSE
    /\ lock_from = FALSE
    /\ pc = "idle"
    /\ cur = NoCur
    /\ wout = <<>>
    /\ rawlog = <<>>

\* Time passes.
AdvanceClock ==
    /\ clock + TimeStep <= MaxTime
    /\ clock <= next_tick
    /\ clock' = clock + TimeStep
    /\ UNCHANGED <<next_tick, unmatched_move_to, unmatched_move_from,
                   lock_to, lock_from, pc, cur, wout, rawlog>>
    /\ UNCHANGED tvars
    /\ UNCHANGED svars

\* Mutant of RecvMovedFrom: the half is stored without a look at the other
\* buffer.
RecvMovedFrom_NoLookup(raw) ==
    /\ unmatched_move_from' =
          Append(unmatched_move_from,
                 [t |-> clock, ev |-> MovedFrom(raw.wd, raw.name, raw.cookie)])
    /\ UNCHANGED <<unmatched_move_to, lock_to, lock_from, pc, cur, wout>>

\* The MOVED_FROM branch.  The guard of the first lock() is a temporary of
\* the `if let` scrutinee and lives to the end of the `if let`: it is still
\* held when the body locks the same Mutex again for swap_remove.
RecvMovedFrom(raw) ==
    LET idx == PositionCookie(unmatched_move_to, "MovedTo", raw.cookie)
    IN IF idx # 0
       THEN /\ lock_to' = TRUE
            /\ pc' = "await_to"
            /\ cur' = [raw |-> raw, idx |-> idx]
            /\ UNCHANGED <<unmatched_move_to, unmatched_move_from, lock_from, wout>>
       ELSE /\ unmatched_move_from' =
                  Append(unmatched_move_from,
                         [t |-> clock, ev |-> MovedFrom(raw.wd, raw.name, raw.cookie)])
            /\ UNCHANGED <<unmatched_move_to, lock_to, lock_from, pc, cur, wout>>

\* The MOVED_TO branch, the mirror image.
RecvMovedTo(raw) ==
    LET idx == PositionCookie(unmatched_move_from, "MovedFrom", raw.cookie)
    IN IF idx # 0
       THEN /\ lock_from' = TRUE
            /\ pc' = "await_from"
            /\ cur' = [raw |-> raw, idx |-> idx]
            /\ UNCHANGED <<unmatched_move_to, unmatched_move_from, lock_to, wout>>
       ELSE /\ unmatched_move_to' =
                  Append(unmatched_move_to,
                         [t |-> clock, ev |-> MovedTo(raw.wd, raw.name, raw.cookie)])
            /\ UNCHANGED <<unmatched_move_from, lock_to, lock_from, pc, cur, wout>>

\* The stream yields an inotify event and its future runs until it completes
\* or waits for a Mutex.  flatten() polls the outer stream only when the
\* inner one is finished, and every guard is dropped by then.
Recv(raw) ==
    /\ pc = "idle"
    /\ Len(rawlog) < MaxRaw
    /\ clock + 2 * INOTIFY_EVENT_GRACE_PERIOD_MS <= MaxTime
    /\ FreshCookie(raw)
    /\ ~lock_to /\ ~lock_from
    /\ rawlog' = Append(rawlog, [ev |-> raw, t |-> clock])
    /\ IF "MOVED_FROM" \in raw.mask THEN RecvMovedFrom(raw)
       ELSE IF "MOVED_TO" \in raw.mask THEN RecvMovedTo(raw)
       ELSE /\ wout' = wout \o PassThrough(raw)
            /\ UNCHANGED <<unmatched_move_to, unmatched_move_from,
                           lock_to, lock_from, pc, cur>>
    /\ UNCHANGED <<clock, next_tick>>
    /\ UNCHANGED tvars
    /\ UNCHANGED svars

\* The pending future is polled again: lock() is granted only when the Mutex
\* is free; then swap_remove(idx) runs, the Move is yielded and the guards
\* are dropped.
WaitLock ==
    /\ pc \in {"await_to", "await_from"}
    /\ UNCHANGED tvars
    /\ UNCHANGED svars
    /\ IF pc = "await_to"
       THEN IF ~lock_to
            THEN LET half == unmatched_move_to[cur.idx].ev
                 IN /\ unmatched_move_to' = SwapRemove(unmatched_move_to, cur.idx)
                    /\ wout' = Append(wout, Move(cur.raw.wd, cur.raw.name,
                                                 half.wd, half.name))
                    /\ pc' = "idle"
                    /\ cur' = NoCur
                    /\ UNCHANGED <<clock, next_tick, unmatched_move_from,
                                   lock_to, lock_from, rawlog>>
            ELSE UNCHANGED wvars
       ELSE IF ~lock_from
            THEN LET half == unmatched_move_from[cur.idx].ev
                 IN /\ unmatched_move_from' = SwapRemove(unmatched_move_from, cur.idx)
                    /\ wout' = Append(wout, Move(half.wd, half.name,
                                                 cur.raw.wd, cur.raw.name))
                    /\ pc' = "idle"
                    /\ cur' = NoCur
                    /\ UNCHANGED <<clock, next_tick, unmatched_move_to,
                                   lock_to, lock_from, rawlog>>
            ELSE UNCHANGED wvars

\* Mutant of Tick: the heartbeat is handled while the future of a
\* notification is still pending.
Tick_WhilePending ==
    /\ pc # "panicked"
    /\ clock >= next_tick
    /\ next_tick' = next_tick + INOTIFY_EVENT_GRACE_PERIOD_MS
    /\ IF lock_to \/ lock_from
       THEN /\ pc' = "panicked"
            /\ UNCHANGED <<unmatched_move_to, unmatched_move_from, wout>>
       ELSE \E to \in {Flush(unmatched_move_to, next_tick, <<>>)} :
            \E both \in {Flush(unmatched_move_from, next_tick, to.events)} :
               /\ unmatched_move_to' = to.buf
               /\ unmatched_move_from' = both.buf
               /\ wout' = wout \o both.events
               /\ pc' = pc
    /\ UNCHANGED <<clock, lock_to, lock_from, cur, rawlog>>
    /\ UNCHANGED tvars
    /\ UNCHANGED svars

\* The stream yields a heartbeat tick, carrying the tick's deadline as `now`:
\* both buffers are try_lock()ed and their expired halves flushed,
\* unmatched_move_to first.
Tick ==
    /\ pc = "idle"
    /\ clock >= next_tick
    /\ next_tick' = next_tick + INOTIFY_EVENT_GRACE_PERIOD_MS
    /\ IF lock_to \/ lock_from
       THEN /\ pc' = "panicked"
            /\ UNCHANGED <<unmatched_move_to, unmatched_move_from, wout>>
       ELSE \E to \in {Flush(unmatched_move_to, next_tick, <<>>)} :
            \E both \in {Flush(unmatched_move_from, next_tick, to.events)} :
               /\ unmatched_move_to' = to.buf
               /\ unmatched_move_from' = both.buf
               /\ wout' = wout \o both.events
               /\ pc' = pc
    /\ UNCHANGED <<clock, lock_to, lock_from, cur, rawlog>>
    /\ UNCHANGED tvars
    /\ UNCHANGED svars

WNext ==
    \/ AdvanceClock
    \/ \E raw \in RawEvents : Recv(raw)
    \/ WaitLock
    \/ Tick


(***************************************************************************)
(* entry.rs                                                                *)
(***************************************************************************)
\* The three variants of Entry<T>.  The payload `data` and the content
\* behind `file_handle` of the File entry the tailer follows are the
\* variables data and file; the records below hold an entry's other fields.
\* An Option is a sequence of length 0 or 1.
FileEntry(name, parent, wd) ==
    [variant |-> "File", name |-> name, parent |-> parent, wd |-> wd]
DirEntry(name, parent, children, wd) ==
    [variant |-> "Dir", name |-> name, parent |-> parent,
     children |-> children, wd |-> wd]
SymlinkEntry(name, parent, link, wd, rules) ==
    [variant |-> "Symlink", name |-> name, parent |-> parent, link |-> link,
     wd |-> wd, rules |-> rules]

\* The names and the parents (directory entries, by number) a rename gives.
EntryNames == {"a.log", "b.log"}
EntryParents == {1, 2}

\* The entry the tailer follows, and the entries a rename is looked at on.
TailedEntry == FileEntry("a.log", 1, 5)
AnyEntry ==
    {TailedEntry,
     DirEntry("a.log", <<>>, {"x", "y"}, 6),
     DirEntry("a.log", <<1>>, {"x"}, 6),
     SymlinkEntry("a.log", 1, "/file", 7, "rules")}

(***************************************************************************)
(* tail.rs                                                                 *)
(***************************************************************************)
\* The length below which a file is read from its start (the literal 8192
\* of Event::Initialize and of the truncation branch of Tailer::tail).
SHORT_FILE_LEN == 8192

\* A file's content, as far as the tailer can tell one content from another:
\* `lines` are the lengths of its newline-terminated records, each with its
\* newline, and `frag` is the number of bytes after the last newline.  The
\* bytes of a record are named by where they lie in the file.
EmptyFile == [lines |-> <<>>, frag |-> 0]

RECURSIVE Sum(_)
Sum(seq) == IF seq = <<>> THEN 0 ELSE Head(seq) + Sum(Tail(seq))

\* file_handle.metadata().len()
FileLen(f) == Sum(f.lines) + f.frag

\* The offsets just past each newline of the file.
NewlineEnds(f) == {Sum(SubSeq(f.lines, 1, j)) : j \in 1..Len(f.lines)}

\* Mutant of ReadUntilNewline: the end of the file ends a line as a newline
\* does.
ReadUntilNewline_EofEndsLine(f, pos) ==
    LET ends == {e \in NewlineEnds(f) \cup {FileLen(f)} : e > pos}
    IN IF ends = {} THEN 0 ELSE CHOOSE e \in ends : \A d \in ends : e <= d

\* BufRead::read_until(b'\n') from `pos`: the offset just past the first
\* newline at or after pos; 0 when the read reaches the end of the file
\* without one (the raw line then does not end with a newline, or is empty).
ReadUntilNewline(f, pos) ==
    LET ends == {e \in NewlineEnds(f) : e > pos}
    IN IF ends = {} THEN 0 ELSE CHOOSE e \in ends : \A d \in ends : e <= d

\* What can go wrong in one pass: nothing, metadata(), seek(), or the
\* `at`-th call of read_until.
IoOutcomes ==
    {[what |-> w, at |-> 0] : w \in {"ok", "stat", "seek"}}
    \cup {[what |-> "read", at |-> k] : k \in 1..MaxReadCalls}
IoOk == [what |-> "ok", at |-> 0]

\* fs.resolve_valid_paths(entry): the logical paths of an entry that has n
\* of them, each ending in the entry's name under the entry's parent.
ResolveValidPaths(e, n) ==
    [k \in 1..n |-> [parent |-> e.parent, name |-> e.name, alias |-> k]]

\* Mutant of LineGroup: the newline is left on the line.
LineGroup_KeepsNewline(from, to, path_list) ==
    [p \in 1..Len(path_list) |-> [line |-> <<from, to + 1>>, file |-> path_list[p]]]

\* paths.iter().map(|path| LineBuilder::new().line(line).file(path)).collect():
\* one record per resolved path; the line is its bytes [from, to) of the
\* file, the newline at `to` popped.
LineGroup(from, to, path_list) ==
    [p \in 1..Len(path_list) |-> [line |-> <<from, to>>, file |-> path_list[p]]]

\* Mutant of Advance: the offset moves one byte too far.
Advance_SkipsByte(offset, line_len) == offset + line_len + 1

\* *offset += line_len
Advance(offset, line_len) == offset + line_len

\* The read loop of Tailer::tail, at its `call`-th read_until, with the
\* line_groups pushed so far: it breaks on a read error and on a raw line
\* that does not end with a newline.
RECURSIVE ReadLoop(_, _, _, _, _, _)
ReadLoop(f, offset, path_list, io, call, line_groups) ==
    LET end == ReadUntilNewline(f, offset)
    IN IF (io.what = "read" /\ io.at = call) \/ end = 0
       THEN [offset |-> offset, groups |-> line_groups]
       ELSE ReadLoop(f, Advance(offset, end - offset), path_list, io, call + 1,
                     Append(line_groups, LineGroup(offset, end - 1, path_list)))

\* Mutant of TruncatedOffset: a truncated file is always read from its start.
TruncatedOffset_Zero(len) == 0

\* *offset = if len < 8192 { 0 } else { len }
TruncatedOffset(len) == IF len < SHORT_FILE_LEN THEN 0 ELSE len

\* Mutant of TailFile: the lines are returned and the offset is not written
\* back.
TailFile_KeepsOffset(f, offset, path_list, io) ==
    IF io.what \in {"stat", "seek"} \/ offset >= FileLen(f)
    THEN [offset |-> offset, groups |-> <<>>]
    ELSE [offset |-> offset,
          groups |-> ReadLoop(f, offset, path_list, io, 1, <<>>).groups]

\* All the records of the groups, in one sequence.
RECURSIVE Concat(_)
Concat(groups) ==
    IF groups = <<>> THEN <<>> ELSE Head(groups) \o Concat(Tail(groups))

\* Mutant of TailFile: the lines of a pass are returned as one group.
TailFile_OneGroup(f, offset, path_list, io) ==
    IF io.what = "stat" THEN [offset |-> offset, groups |-> <<>>]
    ELSE LET len == FileLen(f)
         IN IF offset = len THEN [offset |-> offset, groups |-> <<>>]
            ELSE IF offset > len
                 THEN [offset |-> TruncatedOffset(len), groups |-> <<>>]
            ELSE IF io.what = "seek" THEN [offset |-> offset, groups |-> <<>>]
            ELSE LET r == ReadLoop(f, offset, path_list, io, 1, <<>>)
                 IN [offset |-> r.offset,
                     groups |-> IF r.groups = <<>> THEN <<>>
                                ELSE <<Concat(r.groups)>>]

\* Mutant of TailFile: a pass that stops at an unterminated fragment moves
\* the offset past it.
TailFile_SkipsFragment(f, offset, path_list, io) ==
    IF io.what = "stat" THEN [offset |-> offset, groups |-> <<>>]
    ELSE LET len == FileLen(f)
         IN IF offset = len THEN [offset |-> offset, groups |-> <<>>]
            ELSE IF offset > len
                 THEN [offset |-> TruncatedOffset(len), groups |-> <<>>]
            ELSE IF io.what = "seek" THEN [offset |-> offset, groups |-> <<>>]
            ELSE LET r == ReadLoop(f, offset, path_list, io, 1, <<>>)
                 IN [offset |-> IF io.what = "ok" THEN len ELSE r.offset,
                     groups |-> r.groups]

\* Mutant of TailFile: a failed seek gives the rest of the file up.
TailFile_SeekFailureSkips(f, offset, path_list, io) ==
    IF io.what = "stat" THEN [offset |-> offset, groups |-> <<>>]
    ELSE LET len == FileLen(f)
         IN IF offset = len THEN [offset |-> offset, groups |-> <<>>]
            ELSE IF offset > len
                 THEN [offset |-> TruncatedOffset(len), groups |-> <<>>]
            ELSE IF io.what = "seek"
                 THEN [offset |-> Sum(f.lines), groups |-> <<>>]
            ELSE ReadLoop(f, offset, path_list, io, 1, <<>>)

\* Mutant of TailFile: a truncation is taken for "no work to do" and the
\* offset stays beyond the end of the file.
TailFile_TruncationIgnored(f, offset, path_list, io) ==
    IF io.what = "stat" THEN [offset |-> offset, groups |-> <<>>]
    ELSE LET len == FileLen(f)
         IN IF offset >= len THEN [offset |-> offset, groups |-> <<>>]
            ELSE IF io.what = "seek" THEN [offset |-> offset, groups |-> <<>>]
            ELSE ReadLoop(f, offset, path_list, io, 1, <<>>)

\* Tailer::tail: the offset it leaves and the line groups it returns (<<>>
\* for None).
TailFile(f, offset, path_list, io) ==
    IF io.what = "stat" THEN [offset |-> offset, groups |-> <<>>]
    ELSE LET len == FileLen(f)
         IN IF offset = len THEN [offset |-> offset, groups |-> <<>>]
            ELSE IF offset > len
                 THEN [offset |-> TruncatedOffset(len), groups |-> <<>>]
            ELSE IF io.what = "seek" THEN [offset |-> offset, groups |-> <<>>]
            ELSE ReadLoop(f, offset, path_list, io, 1, <<>>)

\* Mutant of InitializeOffset: a file of exactly 8192 bytes counts as short.
InitializeOffset_Inclusive(f, io) ==
    LET len == IF io.what = "stat" THEN 0 ELSE FileLen(f)
    IN IF len <= SHORT_FILE_LEN THEN 0 ELSE len

\* Event::Initialize: path.metadata().map(|m| m.len()).unwrap_or(0), then
\* 0 if it is below 8192.
InitializeOffset(f, io) ==
    LET len == IF io.what = "stat" THEN 0 ELSE FileLen(f)
    IN IF len < SHORT_FILE_LEN THEN 0 ELSE len

Events == {"Initialize", "New", "Write", "Delete"}

\* The targets a symlink records: the tailed file, a directory, nothing.
Links == {"/file", "/dir", "/gone"}

\* fs.lookup(link): the variant of the entry found, "None" when there is
\* none.  The one File entry of the model is the tailed one.
Lookup(link) ==
    CASE link = "/file" -> "File"
      [] link = "/dir" -> "Dir"
      [] OTHER -> "None"

\* Mutant of RealEntry: a deleted symlink is not resolved.
RealEntry_NoLookup(e) == e.variant

\* Event::Delete: the variant of `entry` after the symlink has been looked
\* up; it stays the Symlink when the lookup finds nothing.
RealEntry(e) ==
    IF e.variant = "Symlink" /\ Lookup(e.link) # "None"
    THEN Lookup(e.link) ELSE e.variant

\* Mutant of ProcessEvent: New reads from the stored offset.
ProcessEvent_NewKeepsOffset(ev, e, path_list, f, offset, io) ==
    LET same == [offset |-> offset, groups |-> <<>>]
    IN IF ev = "Initialize"
       THEN IF e.variant = "File"
            THEN [offset |-> InitializeOffset(f, io), groups |-> <<>>] ELSE same
       ELSE IF path_list = <<>> THEN same
       ELSE IF ev \in {"New", "Write"}
            THEN IF e.variant = "File" THEN TailFile(f, offset, path_list, io)
                 ELSE same
       ELSE IF RealEntry(e) = "File" THEN TailFile(f, offset, path_list, io)
            ELSE same

\* Mutant of ProcessEvent: Write reads from the start of the file.
ProcessEvent_WriteResets(ev, e, path_list, f, offset, io) ==
    LET same == [offset |-> offset, groups |-> <<>>]
    IN IF ev = "Initialize"
       THEN IF e.variant = "File"
            THEN [offset |-> InitializeOffset(f, io), groups |-> <<>>] ELSE same
       ELSE IF path_list = <<>> THEN same
       ELSE IF ev \in {"New", "Write"}
            THEN IF e.variant = "File" THEN TailFile(f, 0, path_list, io)
                 ELSE same
       ELSE IF RealEntry(e) = "File" THEN TailFile(f, offset, path_list, io)
            ELSE same

\* The closure of Tailer::process on one event for the entry e with the
\* valid paths path_list: the offset it leaves in the File entry and
\* final_lines.  f and offset are the file and the payload of the File
\* entry, which is e or what e's link resolves to.
ProcessEvent(ev, e, path_list, f, offset, io) ==
    LET same == [offset |-> offset, groups |-> <<>>]
    IN IF ev = "Initialize"
       THEN IF e.variant = "File"
            THEN [offset |-> InitializeOffset(f, io), groups |-> <<>>] ELSE same
       ELSE IF path_list = <<>> THEN same
       ELSE IF ev = "New"
            THEN IF e.variant = "File" THEN TailFile(f, 0, path_list, io)
                 ELSE same
       ELSE IF ev = "Write"
            THEN IF e.variant = "File" THEN TailFile(f, offset, path_list, io)
                 ELSE same
       ELSE IF RealEntry(e) = "File" THEN TailFile(f, offset, path_list, io)
            ELSE same

\* Event::Delete: error!("can't wrap up deleted symlink ...") when the
\* lookup of the link finds nothing.
ReportsDanglingLink(ev, e, path_list) ==
    /\ ev = "Delete"
    /\ path_list # <<>>
    /\ e.variant = "Symlink"
    /\ Lookup(e.link) = "None"

\* Whether processing `ev` for e calls Tailer::tail.
RunsPass(ev, e, path_list) ==
    /\ ev # "Initialize"
    /\ path_list # <<>>
    /\ IF ev = "Delete" THEN RealEntry(e) = "File" ELSE e.variant = "File"

\* Whether processing `ev` makes the call that `io` fails: metadata() is
\* called by Initialize and by every read pass, seek() by a pass that finds
\* the file longer than the offset, and read_until once per complete line
\* from the offset on and once more.
Reaches(ev, e, path_list, f, offset, io) ==
    LET start == IF ev = "New" THEN 0 ELSE offset
        pass == RunsPass(ev, e, path_list)
    IN CASE io.what = "ok" -> TRUE
         [] io.what = "stat" -> (ev = "Initialize" /\ e.variant = "File") \/ pass
         [] io.what = "seek" -> pass /\ start < FileLen(f)
         [] io.what = "read" ->
                /\ pass /\ start < FileLen(f)
                /\ io.at <= Cardinality({x \in NewlineEnds(f) : x > start}) + 1

\* What a writer appends in one write: n bytes, the last one a newline or not.
AppendSizes == {50, SHORT_FILE_LEN - 50}

\* The lengths a file is cut to.
TruncateLens == {0, 50, SHORT_FILE_LEN}

\* The files found at startup, and the empty file of a fresh create.
InitialFiles ==
    {EmptyFile,
     [lines |-> <<50, 50>>, frag |-> 1],
     [lines |-> <<SHORT_FILE_LEN>>, frag |-> 0],
     [lines |-> <<1000000, 1000000>>, frag |-> 0]}

\* The symlinks an event can be for.
Symlinks == {SymlinkEntry("s.log", 2, l, 7, "rules") : l \in Links}

\* The events for the File entry that are looked at next to a symlink's or
\* to a rename.
FileEvents == {"Write"}

\* The entries an event can be for, each with the number of its valid
\* paths: the tailed entry, and the symlinks.
FileTarget == [e |-> entry, n |-> paths]
Targets ==
    {FileTarget} \cup {[e |-> s, n |-> n] : s \in Symlinks, n \in 0..MaxPaths}

\* History.  `last` is the step just taken: the event processed (or the
\* change of the file or tree), the entry it was for, the offset before it,
\* what went wrong in it and whether it reported a symlink it could not
\* resolve.  `prev` sums up the step before when that was
\* a Write for the File entry: whether its read pass started at or below the
\* file's length and met no I/O error, and how many batches it yielded.
NoTarget == [e |-> [variant |-> "None"], n |-> 0]
NoStep ==
    [ev |-> "none", pre |-> 0, io |-> IoOk, on |-> NoTarget, err |-> FALSE]
FsStep(kind) ==
    [ev |-> kind, pre |-> 0, io |-> IoOk, on |-> NoTarget, err |-> FALSE]
NoPrev == [ev |-> "none", clean |-> FALSE, n |-> 0]

\* The offset the read pass of a step started from.
StartOf(step) == IF step.ev = "New" THEN 0 ELSE step.pre

Summary ==
    IF last.ev = "Write" /\ last.on.e.variant = "File"
    THEN [ev |-> "Write",
          clean |-> last.io.what = "ok" /\ StartOf(last) <= FileLen(file),
          n |-> Len(lines_out)]
    ELSE [ev |-> "other", clean |-> FALSE, n |-> 0]

\* `hist` is the longer history of the tailed file:
\*   origin  - the first event processed for it: "New", "ShortInit" (an
\*             Initialize that found it shorter than 8192 bytes), "other";
\*   intact  - the first event was New or Initialize, and since then the
\*             file has only grown and only Write events have read it;
\*   emitted - the batches yielded since then, while intact;
\*   skipped - the offset a pass that failed in metadata() or seek()
\*             started from, until the next pass that reads; -2 right after
\*             a pass without an I/O error that followed it, -1 otherwise;
\*   scen    - how far the run has followed: New on the empty file (1),
\*             50 bytes without a newline appended (2), Write (3), 50 bytes
\*             ending in a newline appended (4), Write (5).
NoHist ==
    [origin |-> "none", intact |-> FALSE, emitted |-> <<>>, skipped |-> -1,
     scen |-> 0]

\* The history after a change of the file or the tree.
HistFs(kind, n, newline) ==
    LET keeps == hist.intact /\ kind # "truncate"
    IN [origin |-> hist.origin,
        intact |-> keeps,
        emitted |-> IF keeps THEN hist.emitted ELSE <<>>,
        skipped |-> IF kind = "truncate" \/ hist.skipped = -2 THEN -1
                    ELSE hist.skipped,
        scen |-> IF /\ kind = "append" /\ n = 50
                    /\ \/ hist.scen = 1 /\ ~newline
                       \/ hist.scen = 3 /\ newline
                 THEN hist.scen + 1 ELSE 0]

\* The history after the event `ev` for the target tg has been processed
\* with the result r.
HistEvent(ev, tg, io, r) ==
    LET onfile == tg.e.variant = "File"
        pass == RunsPass(ev, tg.e, ResolveValidPaths(tg.e, tg.n))
        first == hist.origin = "none" /\ (onfile \/ pass)
        touches == onfile \/ pass
        keeps == IF first THEN onfile /\ ev \in {"New", "Initialize"}
                 ELSE hist.intact /\ (~touches \/ (onfile /\ ev = "Write"))
    IN [origin |-> IF ~first THEN hist.origin
                   ELSE IF onfile /\ ev = "New" THEN "New"
                   ELSE IF onfile /\ ev = "Initialize"
                           /\ FileLen(file) < SHORT_FILE_LEN THEN "ShortInit"
                   ELSE "other",
        intact |-> keeps,
        emitted |-> IF ~keeps THEN <<>>
                    ELSE IF first THEN r.groups ELSE hist.emitted \o r.groups,
        skipped |-> IF pass
                    THEN IF io.what \in {"stat", "seek"}
                         THEN (IF ev = "New" THEN 0 ELSE data)
                         ELSE IF hist.skipped >= 0 /\ io = IoOk THEN -2
                         ELSE -1
                    ELSE IF onfile /\ ev = "Initialize" THEN -1
                    ELSE hist.skipped,
        scen |-> IF onfile /\ pass /\ io = IoOk
                 THEN IF ev = "New" /\ file = EmptyFile THEN 1
                      ELSE IF ev = "Write" /\ hist.scen \in {2, 4}
                           THEN hist.scen + 1 ELSE 0
                 ELSE 0]

TInit ==
    /\ entry = TailedEntry
    /\ file \in InitialFiles
    /\ data = 0
    /\ paths = 1
    /\ lines_out = <<>>
    /\ fops = 0
    /\ last = NoStep
    /\ prev = NoPrev
    /\ hist = NoHist

\* A writer appends n bytes to the file.
FileAppend(n, newline) ==
    /\ fops < MaxFileOps
    /\ file' = IF newline
               THEN [lines |-> Append(file.lines, file.frag + n), frag |-> 0]
               ELSE [file EXCEPT !.frag = @ + n]
    /\ fops' = fops + 1
    /\ lines_out' = <<>>
    /\ prev' = Summary
    /\ last' = FsStep("append")
    /\ hist' = HistFs("append", n, newline)
    /\ UNCHANGED <<entry, data, paths>>
    /\ UNCHANGED wvars
    /\ UNCHANGED svars

\* The file is cut to `len` bytes.
FileTruncate(len) ==
    /\ fops < MaxFileOps
    /\ len < FileLen(file)
    /\ LET kept == {j \in 0..Len(file.lines) : Sum(SubSeq(file.lines, 1, j)) <= len}
           k == CHOOSE j \in kept : \A i \in kept : i <= j
       IN file' = [lines |-> SubSeq(file.lines, 1, k),
                   frag |-> len - Sum(SubSeq(file.lines, 1, k))]
    /\ fops' = fops + 1
    /\ lines_out' = <<>>
    /\ prev' = Summary
    /\ last' = FsStep("truncate")
    /\ hist' = HistFs("truncate", 0, FALSE)
    /\ UNCHANGED <<entry, data, paths>>
    /\ UNCHANGED wvars
    /\ UNCHANGED svars

\* The tree changes under the entry: it gains or loses a valid path.
Relink(n) ==
    /\ fops < MaxFileOps
    /\ n # paths
    /\ paths' = n
    /\ fops' = fops + 1
    /\ lines_out' = <<>>
    /\ prev' = Summary
    /\ last' = FsStep("relink")
    /\ hist' = HistFs("relink", 0, FALSE)
    /\ UNCHANGED <<entry, file, data>>
    /\ UNCHANGED wvars
    /\ UNCHANGED svars

\* Whether the history records the event: it does when the event is for the
\* File entry, runs a read pass, or is the Delete of a symlink.  The other
\* events for a symlink fall through every arm and leave no trace.
Recorded(ev, tg) ==
    \/ tg.e.variant = "File"
    \/ ev = "Delete"

\* The tailer's stream yields the batches of one event for the target tg.
\* stream::iter(final_lines) makes every line group an item of its own.
Process(ev, tg, io) ==
    /\ entry.variant = "File"
    /\ Reaches(ev, tg.e, ResolveValidPaths(tg.e, tg.n), file, data, io)
    /\ \E r \in {ProcessEvent(ev, tg.e, ResolveValidPaths(tg.e, tg.n),
                              file, data, io)} :
          /\ data' = r.offset
          /\ IF Recorded(ev, tg)
             THEN /\ lines_out' = r.groups
                  /\ hist' = HistEvent(ev, tg, io, r)
                  /\ prev' = Summary
                  /\ last' = [ev |-> ev, pre |-> data, io |-> io, on |-> tg,
                               err |-> ReportsDanglingLink(
                                           ev, tg.e, ResolveValidPaths(tg.e, tg.n))]
             ELSE UNCHANGED <<lines_out, hist, prev, last>>
    /\ UNCHANGED <<entry, file, paths, fops>>
    /\ UNCHANGED wvars
    /\ UNCHANGED svars

TNext ==
    \/ \E n \in AppendSizes, newline \in BOOLEAN : FileAppend(n, newline)
    \/ \E len \in TruncateLens : FileTruncate(len)
    \/ \E n \in 0..MaxPaths : Relink(n)
    \/ \E ev \in Events, io \in IoOutcomes : Process(ev, FileTarget, io)

\* The tailer's steps with the events of symlinks among those of the file.
LNext ==
    \/ \E n \in AppendSizes, newline \in BOOLEAN : FileAppend(n, newline)
    \/ \E ev \in FileEvents, io \in IoOutcomes : Process(ev, FileTarget, io)
    \/ \E ev \in Events, tg \in Targets \ {FileTarget}, io \in IoOutcomes :
          Process(ev, tg, io)

\* Mutant of SetName: a rename as delete and create, which gives the entry a
\* fresh watch and a fresh payload.
SetName_Recreate(new_name) ==
    /\ new_name # entry.name
    /\ entry' = [entry EXCEPT !.name = new_name, !.wd = @ + 10]
    /\ data' = 0
    /\ lines_out' = <<>>
    /\ prev' = Summary
    /\ last' = FsStep("rename")
    /\ hist' = HistFs("rename", 0, FALSE)
    /\ UNCHANGED <<file, paths, fops>>
    /\ UNCHANGED wvars
    /\ UNCHANGED svars

\* Entry::set_name
SetName(new_name) ==
    /\ new_name # entry.name
    /\ entry' = [entry EXCEPT !.name = new_name]
    /\ lines_out' = <<>>
    /\ prev' = Summary
    /\ last' = FsStep("rename")
    /\ hist' = HistFs("rename", 0, FALSE)
    /\ UNCHANGED <<file, data, paths, fops>>
    /\ UNCHANGED wvars
    /\ UNCHANGED svars

\* Entry::set_parent: a Dir's parent is an Option.
SetParent(new_parent) ==
    /\ IF entry.variant = "Dir" THEN entry.parent # <<new_parent>>
       ELSE entry.parent # new_parent
    /\ entry' = IF entry.variant = "Dir"
                THEN [entry EXCEPT !.parent = <<new_parent>>]
                ELSE [entry EXCEPT !.parent = new_parent]
    /\ lines_out' = <<>>
    /\ prev' = Summary
    /\ last' = FsStep("rename")
    /\ hist' = HistFs("rename", 0, FALSE)
    /\ UNCHANGED <<file, data, paths, fops>>
    /\ UNCHANGED wvars
    /\ UNCHANGED svars

\* A rename as the cache applies it (the two mutations of a Move), and the
\* tailer's steps for a File entry.
ENext ==
    \/ \E new_name \in EntryNames : SetName(new_name)
    \/ \E new_parent \in EntryParents : SetParent(new_parent)
    \/ \E n \in AppendSizes, newline \in BOOLEAN :
          entry.variant = "File" /\ FileAppend(n, newline)
    \/ \E ev \in FileEvents, io \in IoOutcomes : Process(ev, FileTarget, io)

(***************************************************************************)
(* tail.rs (impl Source for Tailer), source/lib.rs, main.rs                *)
(***************************************************************************)
\* Option<T>: None, and Some(x).
None == <<>>
Some(x) == <<x>>

\* The Tailers of the model, and what Tailer::new is given (config.log.dirs
\* and config.log.rules).
TailerIds == {1, 2}
DirLists == {<<"/var/log">>, <<"/var/log", "/tmp">>}
RuleSets == {"all", "logs"}

\* Tailer::new
TailerNew(watched_dirs, rules) ==
    [watched_dirs |-> Some(watched_dirs), rules |-> Some(rules)]

\* The task begin_processing hands to spawn: it owns the directories and
\* the rules and builds the FileSystem from them.
Task(watched_dirs, rules) == [watched_dirs |-> watched_dirs, rules |-> rules]

\* Mutant of BeginProcessing: the directories and the rules are cloned and
\* stay in the Tailer.
BeginProcessing_Respawn(tl) ==
    IF tl.watched_dirs = None
    THEN [tailer |-> tl, spawned |-> <<>>,
          logged |-> "missing watched directories", ret |-> "()"]
    ELSE IF tl.rules = None
    THEN [tailer |-> tl, spawned |-> <<>>,
          logged |-> "missing rules", ret |-> "()"]
    ELSE [tailer |-> tl,
          spawned |-> <<Task(tl.watched_dirs[1], tl.rules[1])>>,
          logged |-> "", ret |-> "()"]

\* <Tailer as Source>::begin_processing, run to its end: the Tailer it
\* leaves, the tasks it spawned, the error it logged ("" for none) and what
\* it returned.  Each take() leaves None behind.
BeginProcessing(tl) ==
    IF tl.watched_dirs = None
    THEN [tailer |-> tl, spawned |-> <<>>,
          logged |-> "missing watched directories", ret |-> "()"]
    ELSE IF tl.rules = None
    THEN [tailer |-> [tl EXCEPT !.watched_dirs = None], spawned |-> <<>>,
          logged |-> "missing rules", ret |-> "()"]
    ELSE [tailer |-> [watched_dirs |-> None, rules |-> None],
          spawned |-> <<Task(tl.watched_dirs[1], tl.rules[1])>>,
          logged |-> "", ret |-> "()"]

\* The Tailer has not been moved into a SourceCollection.
Owned(t) == \A i \in 1..Len(sources) : sources[i].id # t

\* The Tailers as Tailer::new leaves them; nothing spawned, registered or
\* called.
SInit ==
    /\ tailers \in [TailerIds -> {TailerNew(d, r) : d \in DirLists, r \in RuleSets}]
    /\ tasks = <<>>
    /\ sources = <<>>
    /\ calls = <<>>

\* begin_processing runs on the Tailer t.
Begin(t) ==
    \E r \in {BeginProcessing(tailers[t])} :
        /\ tailers' = [tailers EXCEPT ![t] = r.tailer]
        /\ tasks' = tasks \o [i \in 1..Len(r.spawned) |->
                                 [by |-> t, task |-> r.spawned[i]]]
        /\ calls' = Append(calls, [on |-> t, had |-> tailers[t],
                                   spawned |-> Len(r.spawned),
                                   logged |-> r.logged, ret |-> r.ret])

\* The owner of a Tailer calls begin_processing on it and awaits it.
Call(t) ==
    /\ Owned(t)
    /\ Len(calls) < MaxCalls
    /\ Begin(t)
    /\ UNCHANGED sources
    /\ UNCHANGED wvars
    /\ UNCHANGED tvars

\* SourceCollection::<Tailer>::register: begin_processing is awaited, then
\* the source is pushed.
Register(t) ==
    /\ Owned(t)
    /\ Len(calls) < MaxCalls
    /\ Begin(t)
    /\ sources' = Append(sources, [id |-> t, as |-> "Tailer"])
    /\ UNCHANGED wvars
    /\ UNCHANGED tvars

\* SourceCollection::<AgentSources>::register, as main does it: the
\* begin_processing of AgentSources builds the future of the Tailer's
\* begin_processing and drops it unpolled, so that the Tailer's does not
\* run; then the source is pushed.
RegisterAgentSource(t) ==
    /\ Owned(t)
    /\ sources' = Append(sources, [id |-> t, as |-> "AgentSources"])
    /\ UNCHANGED <<tailers, tasks, calls>>
    /\ UNCHANGED wvars
    /\ UNCHANGED tvars

SNext ==
    \/ \E t \in TailerIds : Call(t)
    \/ \E t \in TailerIds : Register(t)
    \/ \E t \in TailerIds : RegisterAgentSource(t)

\* The sources' variables while another part is looked at.
SIdle ==
    /\ tailers = [t \in TailerIds |-> TailerNew(<<"/var/log">>, "all")]
    /\ tasks = <<>>
    /\ sources = <<>>
    /\ calls = <<>>

\* The tailer's variables while the reconciler is looked at.
TIdle ==
    /\ entry = TailedEntry
    /\ file = EmptyFile
    /\ data = 0
    /\ paths = 1
    /\ lines_out = <<>>
    /\ fops = 0
    /\ last = NoStep
    /\ prev = NoPrev
    /\ hist = NoHist

\* Any entry at the start; a File entry has the file behind it.
EInit ==
    /\ entry \in AnyEntry
    /\ file \in IF entry.variant = "File" THEN InitialFiles ELSE {EmptyFile}
    /\ data = 0
    /\ paths = 1
    /\ lines_out = <<>>
    /\ fops = 0
    /\ last = NoStep
    /\ prev = NoPrev
    /\ hist = NoHist

\* The first event for the tailed file is processed: the cache yields
\* Initialize for a file found at startup and New for one created later.
FirstEvent ==
    /\ hist.origin = "none"
    /\ \E ev \in {"Initialize", "New"}, io \in IoOutcomes :
          Process(ev, FileTarget, io)

WatchInit == WInit /\ TIdle /\ SIdle
WatchSpec == WatchInit /\ [][WNext]_vars

TailInit == TInit /\ WInit /\ SIdle
TailSpec == TailInit /\ [][TNext]_vars

LinkSpec == TailInit /\ [][LNext]_vars

EntryInit == EInit /\ WInit /\ SIdle
EntrySpec == EntryInit /\ [][ENext]_vars

SourceInit == SInit /\ WInit /\ TIdle
SourceSpec == SourceInit /\ [][SNext]_vars

FairWatchSpec ==
    WatchSpec /\ WF_vars(Tick) /\ WF_vars(AdvanceClock) /\ WF_vars(WaitLock)

FairTailSpec == TailSpec /\ WF_vars(FirstEvent)

(***************************************************************************)
(* The reconciler's claims.                                                *)
(***************************************************************************)
\* The place in rawlog of the MOVED_FROM (MOVED_TO) half of cookie c; 0 when
\* it has not been read.
FromIdx(c) ==
    LET hits == {i \in 1..Len(rawlog) :
                    rawlog[i].ev.mask = {"MOVED_FROM"} /\ rawlog[i].ev.cookie = c}
    IN IF hits = {} THEN 0 ELSE CHOOSE i \in hits : TRUE
ToIdx(c) ==
    LET hits == {i \in 1..Len(rawlog) :
                    rawlog[i].ev.mask = {"MOVED_TO"} /\ rawlog[i].ev.cookie = c}
    IN IF hits = {} THEN 0 ELSE CHOOSE i \in hits : TRUE

IsHalf(e) == e.kind \in {"MovedFrom", "MovedTo"}
InBuffer(buf, kind, c) == PositionCookie(buf, kind, c) # 0
Yielded(e) == \E k \in 1..Len(wout) : wout[k] = e
YieldedHalf(kind, c) ==
    \E k \in 1..Len(wout) : wout[k].kind = kind /\ wout[k].cookie = c

\* The stream reads a raw notification in this step.
Reads(raw) == rawlog' = Append(rawlog, [ev |-> raw, t |-> clock])

\* C1: a MOVED_FROM followed within the grace period by the MOVED_TO of the
\* same cookie yields exactly one Move, built from the two halves, and no
\* MovedFrom or MovedTo of that cookie.
C1_PairWithinGraceYieldsOneMove ==
    \A c \in Cookies :
        LET i == FromIdx(c)
            j == ToIdx(c)
        IN (/\ i # 0 /\ j # 0 /\ i < j
            /\ rawlog[j].t - rawlog[i].t <= INOTIFY_EVENT_GRACE_PERIOD_MS)
           => /\ Cardinality({k \in 1..Len(wout) :
                    wout[k] = Move(rawlog[i].ev.wd, rawlog[i].ev.name,
                                   rawlog[j].ev.wd, rawlog[j].ev.name)}) = 1
              /\ ~YieldedHalf("MovedFrom", c)
              /\ ~YieldedHalf("MovedTo", c)

\* C2: a half that arrives more than the grace period after the other half
\* of its cookie is not paired with it: it is kept as an unpaired half of its
\* own (buffered for re-emission) and no Move is yielded.
C2_LateHalfStaysIndependent ==
    [][\A raw \in RawEvents :
          (/\ Reads(raw)
           /\ IsMove(raw.mask)
           /\ LET i == IF "MOVED_FROM" \in raw.mask
                       THEN ToIdx(raw.cookie) ELSE FromIdx(raw.cookie)
              IN i # 0 /\ clock - rawlog[i].t > INOTIFY_EVENT_GRACE_PERIOD_MS)
          => /\ wout' = wout
             /\ pc' = "idle"
             /\ IF "MOVED_FROM" \in raw.mask
                THEN InBuffer(unmatched_move_from', "MovedFrom", raw.cookie)
                ELSE InBuffer(unmatched_move_to', "MovedTo", raw.cookie)]_vars

\* C3: a buffered half whose partner never arrives is eventually re-emitted.
C3_UnpairedHalfEventuallyReemitted ==
    \A c \in Cookies :
        /\ [](InBuffer(unmatched_move_from, "MovedFrom", c)
                => <>(YieldedHalf("MovedFrom", c) \/ ToIdx(c) # 0))
        /\ [](InBuffer(unmatched_move_to, "MovedTo", c)
                => <>(YieldedHalf("MovedTo", c) \/ FromIdx(c) # 0))

\* The same, as long as the stream is not stuck in a pending future: what
\* keeps a half from being re-emitted is never the end of the modelled time.
UnpairedHalfReemittedUnlessStuck ==
    \A c \in Cookies :
        /\ [](InBuffer(unmatched_move_from, "MovedFrom", c)
                => <>(YieldedHalf("MovedFrom", c) \/ ToIdx(c) # 0 \/ pc # "idle"))
        /\ [](InBuffer(unmatched_move_to, "MovedTo", c)
                => <>(YieldedHalf("MovedTo", c) \/ FromIdx(c) # 0 \/ pc # "idle"))

\* C4: a MovedFrom or MovedTo is yielded only by a heartbeat tick, only for a
\* half that sat in the buffer of its kind with tick time - grace > arrival
\* time (strictly), it is the raw notification's kind, wd, name and cookie,
\* and the half has left the buffer in the same step.
C4_FlushOnlyExpiredAsOriginal ==
    [][/\ Len(wout') >= Len(wout)
       /\ SubSeq(wout', 1, Len(wout)) = wout
       /\ \A k \in (Len(wout) + 1)..Len(wout') :
            IsHalf(wout'[k]) =>
                LET e == wout'[k]
                    from == e.kind = "MovedFrom"
                    buf == IF from THEN unmatched_move_from ELSE unmatched_move_to
                    bufAfter == IF from THEN unmatched_move_from'
                                ELSE unmatched_move_to'
                IN /\ next_tick' = next_tick + INOTIFY_EVENT_GRACE_PERIOD_MS
                   /\ \E i \in 1..Len(buf) :
                        /\ buf[i].ev = e
                        /\ next_tick - buf[i].t > INOTIFY_EVENT_GRACE_PERIOD_MS
                   /\ ~InBuffer(bufAfter, e.kind, e.cookie)
                   /\ \E i \in 1..Len(rawlog) :
                        /\ rawlog[i].ev.mask =
                             (IF from THEN {"MOVED_FROM"} ELSE {"MOVED_TO"})
                        /\ rawlog[i].ev.wd = e.wd
                        /\ rawlog[i].ev.name = e.name
                        /\ rawlog[i].ev.cookie = e.cookie]_vars

\* A MovedFrom and a MovedTo have both been re-emitted by a heartbeat.
C4_Witness ==
    /\ \E c \in Cookies : YieldedHalf("MovedFrom", c)
    /\ \E c \in Cookies : YieldedHalf("MovedTo", c)

\* C5: whichever half of a cookie arrives first is buffered silently, and
\* when the other half arrives the Move is yielded in that step, with
\* from_wd/from_name of the MOVED_FROM and to_wd/to_name of the MOVED_TO.
C5_PairingSymmetricInArrivalOrder ==
    [][\A raw \in RawEvents :
          (Reads(raw) /\ IsMove(raw.mask)) =>
            LET from == "MOVED_FROM" \in raw.mask
                other == IF from THEN unmatched_move_to ELSE unmatched_move_from
                idx == PositionCookie(other, IF from THEN "MovedTo" ELSE "MovedFrom",
                                      raw.cookie)
            IN IF idx # 0
               THEN wout' = Append(wout,
                        IF from
                        THEN Move(raw.wd, raw.name, other[idx].ev.wd, other[idx].ev.name)
                        ELSE Move(other[idx].ev.wd, other[idx].ev.name, raw.wd, raw.name))
               ELSE /\ wout' = wout
                    /\ IF from
                       THEN InBuffer(unmatched_move_from', "MovedFrom", raw.cookie)
                       ELSE InBuffer(unmatched_move_to', "MovedTo", raw.cookie)]_vars

\* The event a create, delete, modify or overflow notification stands for.
Corresponding(raw) ==
    CASE "CREATE" \in raw.mask -> <<[kind |-> "Create", wd |-> raw.wd, name |-> raw.name]>>
      [] "DELETE" \in raw.mask -> <<[kind |-> "Delete", wd |-> raw.wd, name |-> raw.name]>>
      [] "MODIFY" \in raw.mask -> <<[kind |-> "Modify", wd |-> raw.wd]>>
      [] "Q_OVERFLOW" \in raw.mask -> <<[kind |-> "Overflow"]>>
      [] OTHER -> <<>>

RECURSIVE ExpectedPassThrough(_)
ExpectedPassThrough(log) ==
    IF log = <<>> THEN <<>>
    ELSE (IF IsMove(Head(log).ev.mask) THEN <<>> ELSE Corresponding(Head(log).ev))
         \o ExpectedPassThrough(Tail(log))

IsPassThrough(e) == e.kind \in {"Create", "Delete", "Modify", "Overflow"}

\* C6: a create, delete, modify or overflow notification yields its one
\* event in the step that reads it and leaves both buffers alone; a
\* notification with none of the six bits yields nothing; and the yielded
\* Create, Delete, Modify and Overflow events are in the order of arrival.
C6_PassThroughInOrder ==
    [][/\ \A raw \in RawEvents :
            (Reads(raw) /\ ~IsMove(raw.mask)) =>
                /\ wout' = wout \o Corresponding(raw)
                /\ UNCHANGED <<unmatched_move_to, unmatched_move_from>>
       /\ SelectSeq(wout', IsPassThrough) = ExpectedPassThrough(rawlog')]_vars

\* A Create and an Overflow were yielded around an IGNORED that yielded nothing.
C6_Witness ==
    /\ Len(rawlog) = 3
    /\ rawlog[1].ev.mask = {"CREATE"}
    /\ rawlog[2].ev.mask = {"IGNORED"}
    /\ rawlog[3].ev.mask = {"Q_OVERFLOW"}
    /\ wout = <<Create(1, "a"), Overflow>>

\* C22: no step of the reconciler blocks forever on the lock of a pairing
\* buffer: a future that waits for a lock gets it, completes (yielding the
\* Move when a partner was found) and the stream goes on to its next item.
C22_NoStepBlocksForever ==
    [](pc \in {"await_to", "await_from"} => <>(pc = "idle"))

\* The future that waits holds the very lock it waits for: its first guard
\* on the buffer is alive while it locks the buffer again.
WaitsOnlyForItsOwnLock ==
    /\ pc = "await_to" => lock_to /\ ~lock_from
    /\ pc = "await_from" => lock_from /\ ~lock_to
    /\ pc = "idle" => ~lock_to /\ ~lock_from

\* C23: the heartbeat's flush never finds a pairing buffer locked: a tick
\* is handled only when neither lock is held, so both try_lock()s succeed
\* and the stream never panics with "Couldn't lock".
C23_FlushNeverFindsLockHeld ==
    [][next_tick' # next_tick =>
          /\ ~lock_to /\ ~lock_from
          /\ pc = "idle" /\ pc' = "idle"]_vars

\* The heartbeat has ticked, a half sits in each buffer, and the next tick
\* is overdue while the future of a MOVED_TO holds the lock of
\* unmatched_move_from.
C23_Witness ==
    /\ pc = "await_from" /\ lock_from
    /\ next_tick >= INOTIFY_EVENT_GRACE_PERIOD_MS
    /\ clock > next_tick
    /\ unmatched_move_to # <<>>
    /\ unmatched_move_from # <<>>

\* The place in rawlog of the notification a re-emitted half stands for.
HalfIdx(e) == IF e.kind = "MovedFrom" THEN FromIdx(e.cookie) ELSE ToIdx(e.cookie)

\* C24: unpaired halves keep their arrival order: of any two re-emitted
\* halves, the one whose notification arrived first is yielded first,
\* whatever their kinds.
C24_UnpairedHalvesKeepArrivalOrder ==
    \A k, l \in 1..Len(wout) :
        (k < l /\ IsHalf(wout[k]) /\ IsHalf(wout[l]))
            => HalfIdx(wout[k]) < HalfIdx(wout[l])

\* The same for two halves of one kind, which sit in one buffer.
SameKindHalvesKeepArrivalOrder ==
    \A k, l \in 1..Len(wout) :
        (k < l /\ IsHalf(wout[k]) /\ wout[l].kind = wout[k].kind)
            => HalfIdx(wout[k]) < HalfIdx(wout[l])

\* In how many ways the i-th notification read, a rename half, is accounted
\* for: as an element of the buffer of its kind, as a half of a yielded
\* Move, as a re-emitted MovedFrom or MovedTo.
Accounted(i) ==
    LET raw == rawlog[i].ev
        from == "MOVED_FROM" \in raw.mask
        kind == IF from THEN "MovedFrom" ELSE "MovedTo"
        buf == IF from THEN unmatched_move_from ELSE unmatched_move_to
    IN Cardinality({j \in 1..Len(buf) :
            buf[j].ev.kind = kind /\ buf[j].ev.cookie = raw.cookie})
       + Cardinality({k \in 1..Len(wout) :
            /\ wout[k].kind = "Move"
            /\ IF from
               THEN wout[k].from_wd = raw.wd /\ wout[k].from_name = raw.name
               ELSE wout[k].to_wd = raw.wd /\ wout[k].to_name = raw.name})
       + Cardinality({k \in 1..Len(wout) :
            wout[k].kind = kind /\ wout[k].cookie = raw.cookie})

\* C25: every rename half read so far is accounted for exactly once: it is
\* in its buffer, or it is a half of exactly one yielded Move, or it has been
\* re-emitted once as a MovedFrom or MovedTo.
C25_EveryHalfAccountedOnce ==
    \A i \in 1..Len(rawlog) : IsMove(rawlog[i].ev.mask) => Accounted(i) = 1

\* The same, but for the half whose future is pending.
EveryHalfAccountedOnceUnlessPending ==
    \A i \in 1..Len(rawlog) :
        IsMove(rawlog[i].ev.mask) =>
            Accounted(i) = IF pc # "idle" /\ rawlog[i].ev = cur.raw THEN 0 ELSE 1

\* C26: the two buffers never hold the two halves of one cookie at a time,
\* unmatched_move_from holds only MovedFrom events and unmatched_move_to
\* only MovedTo events.
C26_BuffersNeverHoldMatchingHalves ==
    /\ \A i \in 1..Len(unmatched_move_from), j \in 1..Len(unmatched_move_to) :
          unmatched_move_from[i].ev.cookie # unmatched_move_to[j].ev.cookie
    /\ \A i \in 1..Len(unmatched_move_from) :
          unmatched_move_from[i].ev.kind = "MovedFrom"
    /\ \A j \in 1..Len(unmatched_move_to) :
          unmatched_move_to[j].ev.kind = "MovedTo"

\* Both halves of a cookie have been read, the first of them is buffered,
\* and the other buffer holds a half of the other cookie.
C26_Witness ==
    \E c \in Cookies :
        /\ FromIdx(c) # 0 /\ ToIdx(c) # 0
        /\ \/ /\ InBuffer(unmatched_move_to, "MovedTo", c)
              /\ InBuffer(unmatched_move_from, "MovedFrom", 3 - c)
           \/ /\ InBuffer(unmatched_move_from, "MovedFrom", c)
              /\ InBuffer(unmatched_move_to, "MovedTo", 3 - c)

(***************************************************************************)
(* The tailer's claims.                                                    *)
(***************************************************************************)
\* The step just taken processed an event for the File entry.
OnFile == last.ev \in Events /\ last.on.e.variant = "File"

\* The paths of the entry of the event just processed.
LastPaths == ResolveValidPaths(last.on.e, last.on.n)

\* The step just taken ran a read pass (Tailer::tail was called): the file
\* is what it was in it, for a change of it is a step too.
RanPass == last.ev \in Events /\ RunsPass(last.ev, last.on.e, LastPaths)

\* No newline lies at or after `pos`.
NoNewlineFrom(f, pos) == \A e \in NewlineEnds(f) : e <= pos

\* Every record of every yielded batch is a line that ends at a newline of
\* the file.
OnlyTerminatedLines ==
    \A g \in 1..Len(lines_out) :
        \A p \in 1..Len(lines_out[g]) :
            lines_out[g][p].line[2] + 1 \in NewlineEnds(file)

\* C7, as claimed: in any read pass the bytes after the last newline are
\* never yielded as a line and never advance the offset, and a pass over
\* content with no newline at or after the offset it starts from yields no
\* line and leaves the offset where it was.
C7_PartialLineSafety ==
    RanPass =>
        /\ OnlyTerminatedLines
        /\ data > StartOf(last) => data \in NewlineEnds(file)
        /\ NoNewlineFrom(file, StartOf(last))
              => lines_out = <<>> /\ data = StartOf(last)

\* C7, amended: the same, the last part for a pass that finds the file no
\* shorter than the offset it starts from (a shorter file is a truncation,
\* which moves the offset back).
C7_PartialLineSafetyUnlessTruncated ==
    RanPass =>
        /\ OnlyTerminatedLines
        /\ data > StartOf(last) => data \in NewlineEnds(file)
        /\ (NoNewlineFrom(file, StartOf(last)) /\ StartOf(last) <= FileLen(file))
              => lines_out = <<>> /\ data = StartOf(last)

\* A pass yielded the lines before an unterminated fragment and stopped at
\* the last newline; and a pass over the fragment alone yielded nothing.
C7_Witness ==
    /\ RanPass /\ last.io = IoOk
    /\ file.frag > 0
    /\ \/ lines_out # <<>> /\ data = Sum(file.lines)
       \/ /\ StartOf(last) = Sum(file.lines) /\ StartOf(last) > 0
          /\ lines_out = <<>> /\ data = StartOf(last)

\* C8: a read pass that finds the file shorter than the stored offset yields
\* no line and sets the offset to 0 if the length is below 8192 and to the
\* length otherwise.
C8_TruncationResetsOffset ==
    (RanPass /\ last.io.what # "stat" /\ FileLen(file) < StartOf(last)) =>
        /\ lines_out = <<>>
        /\ data = IF FileLen(file) < 8192 THEN 0 ELSE FileLen(file)

\* A Write found the file cut to 8192 bytes or more, below the offset.
C8_Witness ==
    /\ RanPass /\ last.ev = "Write" /\ last.io = IoOk
    /\ FileLen(file) < last.pre
    /\ FileLen(file) >= 8192
    /\ data = FileLen(file)

\* C9, as claimed: a Write processed right after a Write, the file unchanged
\* between the two, yields no batch.
C9_SecondWriteYieldsNothing ==
    (prev.ev = "Write" /\ last.ev = "Write" /\ OnFile) => lines_out = <<>>

\* C9, amended: so it is when the first Write's read pass started at or
\* below the file's length (no truncation was found) and met no I/O error.
C9_SecondWriteYieldsNothingAfterCleanPass ==
    (prev.ev = "Write" /\ prev.clean /\ last.ev = "Write" /\ OnFile)
        => lines_out = <<>>

\* A Write yielded lines, and the Write after it ran over the unterminated
\* rest of the same file.
C9_Witness ==
    /\ prev.ev = "Write" /\ prev.clean /\ prev.n > 0
    /\ last.ev = "Write" /\ OnFile /\ last.io = IoOk /\ paths # 0
    /\ data < FileLen(file)

\* C10, as claimed: Initialize sets the offset to the file's length when that
\* is at least 8192 and to 0 when it is below, and yields no line.
C10_InitializeShortFileRule ==
    (last.ev = "Initialize" /\ OnFile) =>
        /\ data = IF FileLen(file) >= 8192 THEN FileLen(file) ELSE 0
        /\ lines_out = <<>>

\* C10, amended: so it is when the metadata of the entry's path can be read;
\* when it cannot, the offset is 0 whatever the file's length.
C10_InitializeShortFileRuleIfStatOk ==
    (last.ev = "Initialize" /\ OnFile) =>
        /\ data = IF last.io.what = "stat" THEN 0
                  ELSE IF FileLen(file) >= 8192 THEN FileLen(file) ELSE 0
        /\ lines_out = <<>>

\* Initialize found a file of 2,000,000 bytes and set the offset to 2,000,000.
C10_Witness ==
    /\ last.ev = "Initialize" /\ OnFile
    /\ FileLen(file) = 2000000
    /\ data = 2000000

\* The newlines of f after the offset `from`, and the k-th of them.
EndsFrom(f, from) == {x \in NewlineEnds(f) : x > from}
NthEnd(f, from, k) ==
    CHOOSE x \in EndsFrom(f, from) :
        Cardinality({d \in EndsFrom(f, from) : d < x}) = k - 1

\* The newline-terminated records of f found from `from` onward, in file
\* order, each as <<its first byte, the place of its newline>>: the record
\* without its newline is the bytes between the two.
RecordsFrom(f, from) ==
    [k \in 1..Cardinality(EndsFrom(f, from)) |->
        <<IF k = 1 THEN from ELSE NthEnd(f, from, k - 1),
          NthEnd(f, from, k) - 1>>]

\* The bytes of the first k of these records, their newlines included.
BytesOfFirst(f, from, k) == IF k = 0 THEN 0 ELSE NthEnd(f, from, k) - from

\* The batches are the first k records from `from`, one batch per record,
\* each batch holding the record once per path of path_list, in its order.
IsFanOutOfFirst(batches, k, f, from, path_list) ==
    /\ k <= Len(RecordsFrom(f, from))
    /\ Len(batches) = k
    /\ \A g \in 1..k :
          batches[g] = [p \in 1..Len(path_list) |->
                           [line |-> RecordsFrom(f, from)[g],
                            file |-> path_list[p]]]

\* How many records the pass of the step just taken consumed.
FoundLines ==
    IF last.io.what = "stat" \/ FileLen(file) < StartOf(last) THEN 0
    ELSE Cardinality({x \in NewlineEnds(file) : StartOf(last) < x /\ x <= data})

\* C11: for a File entry whose first event is New and whose file then only
\* grows, with Write events in between: the batches yielded so far are, in
\* file order, exactly the newline-terminated records that lie below the
\* offset, each record once (one batch, holding it once per path resolved
\* in its pass), none twice and none skipped.
C11_AppendOnlyExactlyOnce ==
    (hist.origin = "New" /\ hist.intact) =>
        LET below == Cardinality({x \in NewlineEnds(file) : x <= data})
        IN /\ data \in NewlineEnds(file) \cup {0}
           /\ Len(hist.emitted) = below
           /\ \A g \in 1..Len(hist.emitted) :
                LET batch == hist.emitted[g]
                IN /\ batch # <<>>
                   /\ \A p \in 1..Len(batch) :
                         batch[p].line = RecordsFrom(file, 0)[g]
                   /\ \A p, q \in 1..Len(batch) :
                         batch[p].file = batch[q].file => p = q

\* New read the lines the file had, an append completed another and a Write
\* delivered that one alone, with an unterminated rest still waiting.
C11_Witness ==
    /\ hist.origin = "New" /\ hist.intact
    /\ last.ev = "Write" /\ last.pre > 0
    /\ Len(lines_out) = 1
    /\ Len(hist.emitted) = 3
    /\ Len(hist.emitted[3]) = 2

\* C12: a read pass that finds the file longer than the offset O it starts
\* from yields the newline-terminated records found from O onward (all of
\* them unless a seek or read error ends the pass), each without its newline,
\* once per resolved path, in file order, and leaves the offset at O plus the
\* bytes of those records, newlines included.
C12_GrowthPassExact ==
    (RanPass /\ last.io.what # "stat" /\ FileLen(file) > StartOf(last)) =>
        \E k \in 0..Len(RecordsFrom(file, StartOf(last))) :
            /\ IsFanOutOfFirst(lines_out, k, file, StartOf(last), LastPaths)
            /\ data = StartOf(last) + BytesOfFirst(file, StartOf(last), k)
            /\ last.io = IoOk => k = Len(RecordsFrom(file, StartOf(last)))

\* A pass from a non-zero offset read the two records appended since.
C12_Witness ==
    /\ RanPass /\ last.io = IoOk
    /\ StartOf(last) > 0
    /\ Len(lines_out) = 2
    /\ data = Sum(file.lines)
    /\ data > StartOf(last)

\* C13, as claimed: a pass that finds k >= 1 complete lines for an entry
\* with p paths puts exactly one batch of k*p records on the output, and a
\* pass that finds none puts nothing.
C13_OneBatchPerPass ==
    RanPass =>
        IF FoundLines >= 1
        THEN /\ Len(lines_out) = 1
             /\ Len(lines_out[1]) = FoundLines * Len(LastPaths)
        ELSE lines_out = <<>>

\* C13, amended: the pass puts k batches on the output, one per line in file
\* order, each holding its line once per path (p records), and nothing when
\* it finds no line.
C13_OneBatchPerLine ==
    RanPass =>
        /\ Len(lines_out) = FoundLines
        /\ \A g \in 1..Len(lines_out) :
              /\ Len(lines_out[g]) = Len(LastPaths)
              /\ \A p \in 1..Len(lines_out[g]) :
                    lines_out[g][p].line = lines_out[g][1].line
        /\ \A g \in 1..(Len(lines_out) - 1) :
              lines_out[g][1].line[2] < lines_out[g + 1][1].line[1]

\* A pass found two lines for two paths.
C13_Witness ==
    /\ RanPass
    /\ FoundLines = 2
    /\ Len(LastPaths) = 2
    /\ Len(lines_out) = 2

\* C14: the file is created empty and New is processed (offset 0); 50 bytes
\* without a newline are written and a Write is processed: no line, offset
\* still 0; 50 more bytes ending in a newline are written and the next Write
\* is processed: one batch, holding the one line of bytes 0..99, offset 100.
\* The run is one in which the entry has a path and no I/O error occurs.
C14_PartialThenComplete ==
    /\ hist.scen \in {1, 2} => data = 0
    /\ hist.scen \in {3, 4} => lines_out = <<>> /\ data = 0
    /\ hist.scen = 5 =>
          /\ Len(lines_out) = 1
          /\ Len(lines_out[1]) = paths
          /\ \A p \in 1..Len(lines_out[1]) : lines_out[1][p].line = <<0, 99>>
          /\ data = 100

\* The run has been followed to its end.
C14_Witness ==
    /\ hist.scen = 5
    /\ file = [lines |-> <<100>>, frag |-> 0]
    /\ last.ev = "Write"

\* The offset and the batches are those of one read pass from byte `from`.
IsPassFrom(from) ==
    IF last.io.what = "stat" THEN lines_out = <<>> /\ data = from
    ELSE IF FileLen(file) < from
         THEN lines_out = <<>> /\ data \in {0, FileLen(file)}
    ELSE \E k \in 0..Len(RecordsFrom(file, from)) :
            /\ IsFanOutOfFirst(lines_out, k, file, from, LastPaths)
            /\ data = from + BytesOfFirst(file, from, k)
            /\ last.io = IoOk => k = Len(RecordsFrom(file, from))

\* C15, as claimed: processing New for a File entry sets the offset to 0,
\* whatever it was, and runs one read pass from byte 0.
C15_NewResetsThenReads ==
    (last.ev = "New" /\ OnFile) => IsPassFrom(0)

\* C15, amended: so it does when the entry has at least one valid path; when
\* it has none, the offset stays what it was and nothing is read.
C15_NewResetsThenReadsIfPaths ==
    (last.ev = "New" /\ OnFile) =>
        IF LastPaths # <<>> THEN IsPassFrom(0)
        ELSE lines_out = <<>> /\ data = last.pre

\* New found a non-zero offset and read the file from byte 0.
C15_Witness ==
    /\ last.ev = "New" /\ OnFile /\ last.io = IoOk
    /\ last.pre > 0
    /\ lines_out # <<>>
    /\ lines_out[1][1].line[1] = 0

\* C16: processing Write or Delete for a File entry starts the read pass at
\* the stored offset (no reset), and when the file's length equals the
\* stored offset it yields nothing and leaves the offset unchanged.
C16_WriteDeleteReadFromStoredOffset ==
    (last.ev \in {"Write", "Delete"} /\ OnFile) =>
        /\ IF LastPaths # <<>> THEN IsPassFrom(last.pre)
           ELSE lines_out = <<>> /\ data = last.pre
        /\ FileLen(file) = last.pre => lines_out = <<>> /\ data = last.pre

\* A Delete read on from a non-zero offset.
C16_Witness ==
    /\ last.ev = "Delete" /\ OnFile
    /\ last.pre > 0
    /\ lines_out # <<>>
    /\ lines_out[1][1].line[1] = last.pre

\* Every newline-terminated line of the file has been yielded.
AllLinesDelivered == Len(hist.emitted) = Len(file.lines)

\* C17: a file shorter than 8192 bytes that exists at startup and is first
\* seen through Initialize eventually has every one of its newline-
\* terminated lines, from byte 0, delivered (unless it is cut, or created
\* anew, before).
C17_ShortFileEventuallyDelivered ==
    [](hist.origin = "ShortInit" /\ hist.intact /\ file.lines # <<>>
          => <>(AllLinesDelivered \/ ~hist.intact))

\* What does hold for such a file: the first Write that is processed for it
\* with a valid path and without I/O error delivers every line from byte 0.
ShortFileDeliveredByNextWrite ==
    (/\ hist.origin = "ShortInit" /\ hist.intact
     /\ last.ev = "Write" /\ OnFile /\ last.io = IoOk /\ LastPaths # <<>>)
    => /\ AllLinesDelivered
       /\ \A g \in 1..Len(hist.emitted) :
             hist.emitted[g][1].line = RecordsFrom(file, 0)[g]

\* C18: a rename in place (set_name, set_parent) changes only the entry's
\* name and parent: variant, watch descriptor, payload (read offset), file
\* behind the handle, children, link and rules stay what they were; so the
\* Write processed after the rename reads on from the same offset, and its
\* lines carry the new name.
C18_RenamePreservesIdentity ==
    [][/\ entry' # entry =>
            /\ DOMAIN entry' = DOMAIN entry
            /\ \A fld \in DOMAIN entry \ {"name", "parent"} :
                  entry'[fld] = entry[fld]
            /\ data' = data
            /\ file' = file
       /\ (last.ev = "rename" /\ last'.ev = "Write") =>
            /\ last'.pre = data
            /\ lines_out' # <<>> =>
                  /\ lines_out'[1][1].line[1] = data
                  /\ lines_out'[1][1].file.name = entry.name
                  /\ lines_out'[1][1].file.parent = entry.parent]_vars

\* A file read up to a non-zero offset was renamed and moved, and the Write
\* after that read on from the offset.
C18_Witness ==
    /\ entry.variant = "File"
    /\ entry.name = "b.log" /\ entry.parent = 2
    /\ prev.ev = "other" /\ last.ev = "Write"
    /\ last.pre > 0
    /\ lines_out # <<>>
    /\ lines_out[1][1].line[1] = last.pre
    /\ lines_out[1][1].file.name = "b.log"

\* C19: Delete for a Symlink entry with a non-empty path set looks the link
\* up; if it resolves to the File entry, one read pass runs on that file from
\* the file's own stored offset and the lines carry the symlink's paths; if
\* it does not resolve, an error is reported, no line is yielded and the
\* offset does not change.
C19_SymlinkDelete ==
    (/\ last.ev = "Delete"
     /\ last.on.e.variant = "Symlink"
     /\ last.on.n # 0)
    => /\ Lookup(last.on.e.link) = "File" =>
             /\ IsPassFrom(last.pre)
             /\ \A g \in 1..Len(lines_out) :
                   /\ Len(lines_out[g]) = last.on.n
                   /\ \A p \in 1..Len(lines_out[g]) :
                         /\ lines_out[g][p].file.name = last.on.e.name
                         /\ lines_out[g][p].file.parent = last.on.e.parent
             /\ ~last.err
       /\ Lookup(last.on.e.link) = "None" =>
             /\ last.err
             /\ lines_out = <<>>
             /\ data = last.pre

\* The Delete of a symlink with two paths read the file it points to on
\* from a non-zero offset.
C19_Witness ==
    /\ last.ev = "Delete"
    /\ last.on.e.variant = "Symlink"
    /\ last.on.e.link = "/file"
    /\ last.on.n = 2
    /\ last.pre > 0
    /\ lines_out # <<>>
    /\ lines_out[1][1].line[1] = last.pre
    /\ data > last.pre

\* The last batches, as many as there are records from `from` on, hold
\* those records (each up to its newline, and from `from` or from the start
\* of its line), once per path of the event's entry.
DeliversFrom(batches, f, from, path_list) ==
    LET n == Len(RecordsFrom(f, from))
        skip == Len(batches) - n
    IN /\ skip >= 0
       /\ \A g \in 1..n :
             /\ Len(batches[skip + g]) = Len(path_list)
             /\ \A p \in 1..Len(path_list) :
                   /\ batches[skip + g][p].file = path_list[p]
                   /\ batches[skip + g][p].line[2] = RecordsFrom(f, from)[g][2]
                   /\ batches[skip + g][p].line[1] <= RecordsFrom(f, from)[g][1]

\* C20: a read pass in which metadata() or seek() fails yields no line and
\* leaves the offset where the pass started; later events are processed as
\* ever, and the next pass for the entry that meets no I/O error delivers the
\* lines the failed pass skipped (the file not having been cut in between).
C20_FailedPassRetried ==
    [][/\ (RanPass' /\ last'.io.what \in {"stat", "seek"}) =>
            /\ lines_out' = <<>>
            /\ data' = StartOf(last')
       /\ (hist.skipped >= 0 /\ RanPass' /\ last'.io = IoOk) =>
            /\ StartOf(last') <= hist.skipped
            /\ DeliversFrom(lines_out', file, hist.skipped, LastPaths')]_vars

\* A pass failed with lines waiting, and the next pass without I/O error
\* delivered them.
C20_Witness ==
    /\ hist.skipped = -2
    /\ RanPass /\ last.io = IoOk
    /\ Len(lines_out) >= 2
    /\ data = Sum(file.lines)

\* C27: the offset never ends a pass beyond the file.  After an Initialize
\* for the File entry, and after every read pass (New, Write or Delete) whose
\* metadata() succeeded, the stored offset is at most the file's length; and
\* the offset comes to exceed the length only by a truncation of the file,
\* never by a step of the tailer or a growth of the file.
C27_OffsetWithinFile ==
    [][/\ (last'.ev = "Initialize" /\ OnFile') => data' <= FileLen(file')
       /\ (RanPass' /\ last'.io.what # "stat") => data' <= FileLen(file')
       /\ (data <= FileLen(file) /\ data' > FileLen(file'))
             => last'.ev = "truncate"]_vars

\* A Delete found the file cut below the offset, to a length that is not 0,
\* and its pass put the offset back to the start of the file.
C27_Witness ==
    /\ RanPass /\ last.ev = "Delete" /\ last.io = IoOk
    /\ last.pre > FileLen(file)
    /\ FileLen(file) > 0
    /\ data = 0


(***************************************************************************)
(* The claims about the start of a source.                                 *)
(***************************************************************************)
\* The calls of begin_processing that ran on the Tailer t, as places in calls.
CallsOn(t) == {i \in 1..Len(calls) : calls[i].on = t}

\* The tasks the Tailer t has spawned.
TasksBy(t) == {i \in 1..Len(tasks) : tasks[i].by = t}

\* C21: begin_processing starts at most once and never fails to the caller.
\* The first call that runs on a Tailer finds its watched directories and
\* rules, takes both (None is left) and spawns one task, which owns them, and
\* logs nothing; every later call on that Tailer finds them taken, logs an
\* error and spawns nothing; every call returns (), and a Tailer never has
\* more than one task.
C21_BeginProcessingAtMostOnce ==
    \A t \in TailerIds :
        /\ Cardinality(TasksBy(t)) = IF CallsOn(t) = {} THEN 0 ELSE 1
        /\ CallsOn(t) # {} =>
              tailers[t] = [watched_dirs |-> None, rules |-> None]
        /\ \A i \in CallsOn(t) :
              /\ calls[i].ret = "()"
              /\ IF \A j \in CallsOn(t) : i <= j
                 THEN /\ calls[i].spawned = 1
                      /\ calls[i].logged = ""
                      /\ calls[i].had.watched_dirs # None
                      /\ calls[i].had.rules # None
                      /\ \A k \in TasksBy(t) :
                            tasks[k].task = Task(calls[i].had.watched_dirs[1],
                                                 calls[i].had.rules[1])
                 ELSE /\ calls[i].spawned = 0
                      /\ calls[i].logged # ""
                      /\ calls[i].had = [watched_dirs |-> None, rules |-> None]

\* A Tailer was started by a call, called again twice, the second time by
\* register, and the other Tailer has not been called.
C21_Witness ==
    \E t \in TailerIds :
        /\ Cardinality(CallsOn(t)) = 3
        /\ Cardinality(TasksBy(t)) = 1
        /\ \E i \in 1..Len(sources) : sources[i] = [id |-> t, as |-> "Tailer"]
        /\ calls[3].logged = "missing watched directories"

=============================================================================
